---------------------------- MODULE Spec2Model ----------------------------
(***************************************************************************)
(* Model of the marketing-funnel ETL (src/etl/prepare_dataset.py,          *)
(* src/etl/upload_to_mongo.py) and of the dashboard's filter and metrics   *)
(* (src/dashboard/app.py).                                                 *)
(*                                                                         *)
(* A DataFrame is a record [rows, dtypes]: rows is the sequence of its     *)
(* rows (records keyed by column name) and dtypes gives each nullable      *)
(* column's pandas dtype.  Nullable cells are tagged records so that the   *)
(* three null-equivalents pandas knows (NaN, NaT, None) stay distinct.     *)
(***************************************************************************)
EXTENDS Integers, Sequences, FiniteSets, TLC

VARIABLES
    where_upcasts,  \* environment: DataFrame.where(cond, None) casts float64 to object
    campaigns,      \* contents of data/campaigns.json
    leads,          \* contents of data/leads.json
    inscriptions,   \* contents of data/inscriptions.json
    pc,             \* position of the __main__ script
    merged_df,      \* the frame prepare_dataset returned (NoFrame before)
    df_sanitized,   \* the frame sanitize_dataframe returned (NoFrame before)
    collection,     \* documents of the MongoDB collection
    collection0,    \* documents the collection held when the current run started
    failed_at,      \* stage whose exception ended the run ("none" while running)
    run,            \* number of the current run of the script
    dash            \* what the dashboard last rendered (NoDash before)

vars == <<where_upcasts, campaigns, leads, inscriptions, pc, merged_df,
          df_sanitized, collection, collection0, failed_at, run, dash>>

---------------------------------------------------------------------------
(* Bounds of the model *)

MaxLeads == 2
MaxCampaigns == 2
MaxInscriptions == 2
MaxRuns == 2

---------------------------------------------------------------------------
(* Cell values *)

NaN == [t |-> "NaN"]
NaT == [t |-> "NaT"]
None == [t |-> "None"]

Str(s) == [t |-> "str", v |-> s]
Timestamp(h) == [t |-> "ts", v |-> h]
IntCell(n) == [t |-> "int", v |-> n]
Float(num, scale) == [t |-> "float", num |-> num, scale |-> scale]
\* An ISO date string "2024-01-<d> <h>:00"
DateStr(d, h) == [t |-> "date", d |-> d, h |-> h]

\* pd.isna / pd.isnull on a scalar
isna(v) == v.t \in {"NaN", "NaT", "None"}

HoursPerDay == 24

---------------------------------------------------------------------------
(* parse_currency *)

Digits == {"0", "1", "2", "3", "4", "5", "6", "7", "8", "9"}

DigitVal(c) ==
    CASE c = "0" -> 0 [] c = "1" -> 1 [] c = "2" -> 2 [] c = "3" -> 3
      [] c = "4" -> 4 [] c = "5" -> 5 [] c = "6" -> 6 [] c = "7" -> 7
      [] c = "8" -> 8 [] c = "9" -> 9

\* str.replace(old, "") for a one-character old
Remove(s, old) == SelectSeq(s, LAMBDA c : c # old)

\* str.replace(old, new) for one-character old and new
Replace(s, old, new) == [i \in DOMAIN s |-> IF s[i] = old THEN new ELSE s[i]]

RECURSIVE LStrip(_)
LStrip(s) == IF s # <<>> /\ Head(s) = " " THEN LStrip(Tail(s)) ELSE s

RECURSIVE RStrip(_)
RStrip(s) ==
    IF s # <<>> /\ s[Len(s)] = " " THEN RStrip(SubSeq(s, 1, Len(s) - 1)) ELSE s

\* str.strip()
Strip(s) == RStrip(LStrip(s))

\* The normalisation of lines 28-33
Normalize(s) ==
    Strip(Replace(Remove(Remove(Remove(s, "€"), "nbsp"), "."), ",", "."))

\* Whether float() accepts the text: digits with at most one point
FloatAccepts(s) ==
    /\ \A i \in DOMAIN s : s[i] \in Digits \cup {"."}
    /\ Cardinality({i \in DOMAIN s : s[i] = "."}) <= 1
    /\ \E i \in DOMAIN s : s[i] \in Digits

RECURSIVE DigitsValue(_)
DigitsValue(s) ==
    IF s = <<>> THEN 0
    ELSE 10 * DigitsValue(SubSeq(s, 1, Len(s) - 1)) + DigitVal(s[Len(s)])

RECURSIVE Reduce(_, _)
Reduce(num, scale) ==
    IF scale > 0 /\ num % 10 = 0 THEN Reduce(num \div 10, scale - 1)
    ELSE Float(num, scale)

\* float(text) for an accepted text: the decimal it denotes
FloatOf(s) ==
    LET point == {i \in DOMAIN s : s[i] = "."}
        scale == IF point = {} THEN 0 ELSE Len(s) - (CHOOSE i \in point : TRUE)
    IN  Reduce(DigitsValue(Remove(s, ".")), scale)

\* What a call that raises ValueError yields
ValueError == [t |-> "ValueError"]

\* parse_currency with the ValueError caught and NaN returned instead
parse_currency_swallowing(euro_str) ==
    IF isna(euro_str) \/ ~FloatAccepts(Normalize(euro_str.v)) THEN NaN
    ELSE FloatOf(Normalize(euro_str.v))

\* Lines 25-34; float() raises ValueError on a text it does not accept
parse_currency(euro_str) ==
    IF isna(euro_str) THEN NaN
    ELSE IF FloatAccepts(Normalize(euro_str.v)) THEN FloatOf(Normalize(euro_str.v))
    ELSE ValueError

---------------------------------------------------------------------------
(* pd.to_datetime on one cell *)

to_datetime(v) ==
    IF isna(v) THEN NaT
    ELSE IF v.t = "date" THEN Timestamp(v.d * HoursPerDay + v.h)
    ELSE ValueError

---------------------------------------------------------------------------
(* DataFrame.merge(how="left") *)

RECURSIVE Flatten(_)
Flatten(ss) == IF ss = <<>> THEN <<>> ELSE Head(ss) \o Flatten(Tail(ss))

\* A left merge gives one output row per (left row, matching right row) pair,
\* in left order and then right order; a left row without a match is kept
\* once, its right-hand columns NaN.

\* leads.merge(campaigns, left_on="input_channel", right_on="campaign_id")
MergeCampaigns(ls, cs) ==
    Flatten([i \in DOMAIN ls |->
        LET m == SelectSeq(cs, LAMBDA c : ls[i].input_channel = c.campaign_id)
        IN  IF m = <<>> THEN <<ls[i] @@ [campaign_id |-> NaN, name |-> NaN]>>
            ELSE [j \in DOMAIN m |-> ls[i] @@ m[j]]])

\* leads_campaigns.merge(inscriptions, on="lead_id", suffixes=('', '_insc'))
MergeInscriptions(lc, ins) ==
    Flatten([i \in DOMAIN lc |->
        LET m == SelectSeq(ins, LAMBDA x : lc[i].lead_id = x.lead_id)
        IN  IF m = <<>> THEN <<lc[i] @@ [created_at_insc |-> NaN, amount |-> NaN]>>
            ELSE [j \in DOMAIN m |->
                     lc[i] @@ [created_at_insc |-> m[j].created_at,
                               amount |-> m[j].amount]]])

---------------------------------------------------------------------------
(* prepare_dataset *)

\* Whole days rounded toward zero, as int(hours / 24) would give
days_truncated(hours) ==
    IF hours < 0 THEN -((-hours) \div HoursPerDay) ELSE hours \div HoursPerDay

\* Timedelta.days: whole days, rounded toward minus infinity
days(hours) == hours \div HoursPerDay

ConversionTimeDays(insc_at, lead_at) ==
    IF isna(insc_at) \/ isna(lead_at) THEN NaN
    ELSE IntCell(days(insc_at.v - lead_at.v))

\* A comparison with NaN is False
GreaterEqualZero(v) == ~isna(v) /\ v.v >= 0
LessThanZero(v) == ~isna(v) /\ v.v < 0

\* detect_anomaly with the first rule not asking for converted
detect_anomaly_unguarded(row) ==
    IF isna(row.inscription_created_at)
        THEN "MISSING_INSCRIPTION_DATE"
    ELSE IF row.converted /\ LessThanZero(row.conversion_time_days)
        THEN "NEGATIVE_CONVERSION_TIME"
    ELSE "NO_ANOMALY"

detect_anomaly(row) ==
    IF row.converted /\ isna(row.inscription_created_at)
        THEN "MISSING_INSCRIPTION_DATE"
    ELSE IF row.converted /\ LessThanZero(row.conversion_time_days)
        THEN "NEGATIVE_CONVERSION_TIME"
    ELSE "NO_ANOMALY"

Merged(cs, ls, ins) == MergeInscriptions(MergeCampaigns(ls, cs), ins)

\* Lines 128-133 raise on a malformed date or currency string
prepare_dataset_raises(cs, ls, ins) ==
    LET m == Merged(cs, ls, ins)
    IN  \E i \in DOMAIN m :
            \/ to_datetime(m[i].created_at) = ValueError
            \/ to_datetime(m[i].created_at_insc) = ValueError
            \/ parse_currency(m[i].cost) = ValueError
            \/ parse_currency(m[i].amount) = ValueError

\* "not before the lead" written as ~(conversion_time_days < 0)
ConversionValidNotNegative(conversion_time_days) ==
    ~LessThanZero(conversion_time_days)

ConversionValid(conversion_time_days) == GreaterEqualZero(conversion_time_days)

EnrichRow(r) ==
    LET lead_at == to_datetime(r.created_at)
        insc_at == to_datetime(r.created_at_insc)
        ctd == ConversionTimeDays(insc_at, lead_at)
        base == r @@ [lead_created_at |-> lead_at,
                      inscription_created_at |-> insc_at,
                      cost_float |-> parse_currency(r.cost),
                      amount_float |-> parse_currency(r.amount),
                      conversion_time_days |-> ctd,
                      converted |-> ~isna(insc_at),
                      conversion_valid |-> ConversionValid(ctd)]
    IN  base @@ [conversion_anomaly_type |-> detect_anomaly(base)]

\* dtypes of the nullable columns of the frame prepare_dataset returns
PreparedDtypes(rows) ==
    [campaign_id |-> "object", name |-> "object",
     created_at_insc |-> "object", amount |-> "object",
     lead_created_at |-> "datetime64", inscription_created_at |-> "datetime64",
     cost_float |-> "float64", amount_float |-> "float64",
     conversion_time_days |->
         IF \E i \in DOMAIN rows : isna(rows[i].conversion_time_days)
         THEN "float64" ELSE "int64"]

prepare_dataset(cs, ls, ins) ==
    LET m == Merged(cs, ls, ins)
        rows == [i \in DOMAIN m |-> EnrichRow(m[i])]
    IN  [rows |-> rows, dtypes |-> PreparedDtypes(rows)]

---------------------------------------------------------------------------
(* sanitize_dataframe *)

NullableCols == {"campaign_id", "name", "created_at_insc", "amount",
                 "lead_created_at", "inscription_created_at",
                 "cost_float", "amount_float", "conversion_time_days"}

\* Series.astype(object).where(Series.notnull(), None): line 67
AsObjectWhereNone(v) == IF isna(v) THEN None ELSE v

\* One cell of DataFrame.where(pd.notnull(df), None), by the column's dtype:
\* an object column takes None; a datetime64 column keeps its own missing
\* value; a float64 column takes None when where() casts it to object and
\* keeps NaN when it does not (pandas 1.3 and later).
WhereNone(v, dtype, upcasts) ==
    IF ~isna(v) THEN v
    ELSE IF dtype = "object" THEN None
    ELSE IF dtype = "datetime64" THEN NaT
    ELSE IF upcasts THEN None
    ELSE NaN

DtypeAfterWhere(rows, col, dtype, upcasts) ==
    IF /\ dtype \in {"float64", "int64"}
       /\ upcasts
       /\ \E i \in DOMAIN rows : isna(rows[i][col])
    THEN "object" ELSE dtype

\* Lines 65-67: every datetime64 column becomes an object column
ConvertDatetimeCols(df) ==
    [rows |-> [i \in DOMAIN df.rows |->
                  [c \in DOMAIN df.rows[i] |->
                      IF c \in NullableCols /\ df.dtypes[c] = "datetime64"
                      THEN AsObjectWhereNone(df.rows[i][c])
                      ELSE df.rows[i][c]]],
     dtypes |-> [c \in DOMAIN df.dtypes |->
                    IF df.dtypes[c] = "datetime64" THEN "object" ELSE df.dtypes[c]]]

\* Line 70
ReplaceOtherNulls(df, upcasts) ==
    [rows |-> [i \in DOMAIN df.rows |->
                  [c \in DOMAIN df.rows[i] |->
                      IF c \in NullableCols
                      THEN WhereNone(df.rows[i][c], df.dtypes[c], upcasts)
                      ELSE df.rows[i][c]]],
     dtypes |-> [c \in DOMAIN df.dtypes |->
                    DtypeAfterWhere(df.rows, c, df.dtypes[c], upcasts)]]

sanitize_dataframe(df, upcasts) ==
    ReplaceOtherNulls(ConvertDatetimeCols(df), upcasts)

---------------------------------------------------------------------------
(* upload_dataframe_to_mongo *)

\* upload without the delete_many
AfterDeleteKeeping(coll, drop_existing) == coll

\* collection.delete_many({}) when drop_existing
AfterDelete(coll, drop_existing) == IF drop_existing THEN <<>> ELSE coll

\* df.to_dict("records"), each with the _id insert_many gives it
Records(df, n) ==
    [i \in DOMAIN df.rows |-> df.rows[i] @@ [_id |-> <<n, i>>]]

\* collection.insert_many(records) when records is not empty
AfterInsert(coll, records) == IF records # <<>> THEN coll \o records ELSE coll

---------------------------------------------------------------------------
(* The contents the three JSON files can have *)

Euro(s) == Str(s)

CampaignIds == {"c1"}
CampaignNames == {"A", "B"}
\* "organic" is the input_channel of a lead that came from no campaign
Channels == {"c1", "organic"}
LeadDate == DateStr(2, 0)
GoodCost == Euro(<<"€", "1", ".", "2", "3", "4", ",", "5", "6">>)
BadCost == Euro(<<"a", "b", "c">>)
GoodAmount == Euro(<<"9", "9", ",", "0", "0", " ">>)
BadDate == Str("not-a-date")
\* An inscription 25 hours before, 1 hour before and 12 hours after LeadDate
Before25h == DateStr(0, 23)
Before1h == DateStr(1, 23)
After12h == DateStr(2, 12)
\* The lead_id values an inscription can carry
InscriptionLeadIds == {1, 2}

SeqsUpTo(S, n) == UNION {[1..k -> S] : k \in 0..n}

CampaignFiles(names) ==
    SeqsUpTo({[campaign_id |-> Str(c), name |-> Str(n)] :
                 c \in CampaignIds, n \in names}, MaxCampaigns)

\* lead_id is the key of leads: the i-th lead has lead_id i
LeadFiles(costs) ==
    {[i \in DOMAIN ls |-> ls[i] @@ [lead_id |-> i]] :
        ls \in SeqsUpTo({[input_channel |-> Str(ch), created_at |-> LeadDate,
                          cost |-> c] : ch \in Channels, c \in costs}, MaxLeads)}

InscriptionFiles(dates) ==
    SeqsUpTo({[lead_id |-> l, created_at |-> d, amount |-> GoodAmount] :
                 l \in InscriptionLeadIds, d \in dates}, MaxInscriptions)

NoFrame == [rows |-> <<>>, dtypes |-> <<>>]
NoDash == [rendered |-> FALSE, crashed |-> FALSE]

\* A document an earlier deployment left in the collection
LegacyDoc == [lead_id |-> 0, _id |-> <<0, 1>>]

---------------------------------------------------------------------------
(* The __main__ script, one action per call *)

\* The script starts over files that may hold a malformed cost or date; the
\* collection is empty or holds an older document.  One campaign is enough
\* here: the joins are explored in SpecEnrich.
Init ==
    /\ where_upcasts \in BOOLEAN
    /\ campaigns = <<[campaign_id |-> Str("c1"), name |-> Str("A")]>>
    /\ leads \in LeadFiles({GoodCost, BadCost})
    /\ inscriptions \in InscriptionFiles({After12h, BadDate})
    /\ pc = "start"
    /\ merged_df = NoFrame
    /\ df_sanitized = NoFrame
    /\ collection \in {<<>>, <<LegacyDoc>>}
    /\ collection0 = collection
    /\ failed_at = "none"
    /\ run = 1
    /\ dash = NoDash

files == <<where_upcasts, campaigns, leads, inscriptions>>

Abort(stage) ==
    /\ pc' = "aborted"
    /\ failed_at' = stage

\* load_data(): the three files are read
Load ==
    /\ pc = "start"
    /\ pc' = "loaded"
    /\ UNCHANGED <<files, merged_df, df_sanitized, collection, collection0,
                   failed_at, run, dash>>

\* load_data(): a file cannot be read and pd.read_json raises
LoadFails ==
    /\ pc = "start"
    /\ Abort("load")
    /\ UNCHANGED <<files, merged_df, df_sanitized, collection, collection0, run, dash>>

Prepare ==
    /\ pc = "loaded"
    /\ IF prepare_dataset_raises(campaigns, leads, inscriptions)
       THEN /\ Abort("prepare")
            /\ UNCHANGED merged_df
       ELSE /\ merged_df' = prepare_dataset(campaigns, leads, inscriptions)
            /\ pc' = "prepared"
            /\ UNCHANGED failed_at
    /\ UNCHANGED <<files, df_sanitized, collection, collection0, run, dash>>

Sanitize ==
    /\ pc = "prepared"
    /\ df_sanitized' = sanitize_dataframe(merged_df, where_upcasts)
    /\ pc' = "sanitized"
    /\ UNCHANGED <<files, merged_df, collection, collection0, failed_at, run, dash>>

\* upload_dataframe_to_mongo, lines 35-40: the configuration is missing
UploadConfigMissing ==
    /\ pc = "sanitized"
    /\ Abort("upload")
    /\ UNCHANGED <<files, merged_df, df_sanitized, collection, collection0, run, dash>>

\* upload_dataframe_to_mongo, lines 48-49, called with drop_existing=True
UploadDelete ==
    /\ pc = "sanitized"
    /\ collection' = AfterDelete(collection, TRUE)
    /\ pc' = "deleted"
    /\ UNCHANGED <<files, merged_df, df_sanitized, collection0, failed_at, run, dash>>

\* upload_dataframe_to_mongo, lines 52-57
UploadInsert ==
    /\ pc = "deleted"
    /\ collection' = AfterInsert(collection, Records(df_sanitized, run))
    /\ pc' = "done"
    /\ UNCHANGED <<files, merged_df, df_sanitized, collection0, failed_at, run, dash>>

\* insert_many raises (the connection is lost after delete_many)
UploadInsertFails ==
    /\ pc = "deleted"
    /\ Abort("upload")
    /\ UNCHANGED <<files, merged_df, df_sanitized, collection, collection0, run, dash>>

\* The script is run again over the same files
Rerun ==
    /\ pc \in {"done", "aborted"}
    /\ run < MaxRuns
    /\ run' = run + 1
    /\ pc' = "start"
    /\ merged_df' = NoFrame
    /\ df_sanitized' = NoFrame
    /\ collection0' = collection
    /\ failed_at' = "none"
    /\ UNCHANGED <<files, collection, dash>>

Next ==
    \/ Load
    \/ LoadFails
    \/ Prepare
    \/ Sanitize
    \/ UploadConfigMissing
    \/ UploadDelete
    \/ UploadInsert
    \/ UploadInsertFails
    \/ Rerun

Spec == Init /\ [][Next]_vars

---------------------------------------------------------------------------
(* prepare_dataset and sanitize_dataframe over well-formed tables *)

InitEnrich ==
    /\ where_upcasts \in BOOLEAN
    /\ campaigns \in CampaignFiles({"A"})
    /\ leads \in LeadFiles({GoodCost})
    /\ inscriptions \in InscriptionFiles({NaN, Before25h, Before1h, After12h})
    /\ pc = "loaded"
    /\ merged_df = NoFrame
    /\ df_sanitized = NoFrame
    /\ collection = <<>>
    /\ collection0 = collection
    /\ failed_at = "none"
    /\ run = 1
    /\ dash = NoDash

NextEnrich ==
    \/ Prepare
    \/ Sanitize

SpecEnrich == InitEnrich /\ [][NextEnrich]_vars

---------------------------------------------------------------------------
(* The dashboard: src/dashboard/app.py *)

\* A filter that keeps the rows without a campaign name
isin_or_missing(v, values) == isna(v) \/ v \in values

\* Series.isin(values): a missing name is in no selection
isin(v, values) == ~isna(v) /\ v \in values

\* Line 33: pd.to_datetime(errors="coerce") of a stored lead_created_at
StoredTimestamp(v) == IF isna(v) THEN NaT ELSE v

\* Line 39: df["name"].dropna().unique()
campaign_names(docs) ==
    {docs[i].name : i \in {j \in DOMAIN docs : ~isna(docs[j].name)}}

\* The calendar day of a timestamp, as st.date_input shows it
DayOf(ts) == ts.v \div HoursPerDay

LeadDays(docs) ==
    {DayOf(docs[i].lead_created_at) :
        i \in {j \in DOMAIN docs : ~isna(StoredTimestamp(docs[j].lead_created_at))}}

Min(S) == CHOOSE x \in S : \A y \in S : x <= y
Max(S) == CHOOSE x \in S : \A y \in S : x >= y

\* pd.to_datetime(date): midnight of that day
Midnight(day) == day * HoursPerDay

\* Lines 60-64
InFilter(doc, selected_campaigns, start_date, end_date) ==
    /\ isin(doc.name, selected_campaigns)
    /\ ~isna(StoredTimestamp(doc.lead_created_at))
    /\ doc.lead_created_at.v >= Midnight(start_date)
    /\ doc.lead_created_at.v <= Midnight(end_date)

filtered_df(docs, selected_campaigns, start_date, end_date) ==
    SelectSeq(docs, LAMBDA d : InFilter(d, selected_campaigns, start_date, end_date))

\* Lines 72-74: the numerator frames
numerator_df(filtered, include_invalid) ==
    IF include_invalid THEN filtered
    ELSE SelectSeq(filtered, LAMBDA d : d.conversion_valid)

\* groupby(key)[...].count() merged with the converted count, lines 136-147
\* and 158-169: per group, the rows and the converted numerator rows
RateTable(base, numerator, key) ==
    [g \in {base[i][key] : i \in DOMAIN base} |->
        [total_leads |-> Len(SelectSeq(base, LAMBDA d : d[key] = g)),
         total_converted |->
             Len(SelectSeq(numerator, LAMBDA d : d[key] = g /\ d.converted))]]

\* Everything the page shows for one choice of the three widgets
Page(docs, selected_campaigns, start_date, end_date, include_invalid) ==
    LET filtered == filtered_df(docs, selected_campaigns, start_date, end_date)
        numerator == numerator_df(filtered, include_invalid)
    IN  [rendered |-> TRUE,
         crashed |-> FALSE,
         selected_campaigns |-> selected_campaigns,
         start_date |-> start_date,
         end_date |-> end_date,
         include_invalid |-> include_invalid,
         shown |-> [i \in DOMAIN filtered |-> filtered[i]._id],
         total_leads |-> Len(filtered),
         valid_conversions |->
             Len(SelectSeq(filtered, LAMBDA d : d.conversion_valid)),
         invalid_conversions |->
             Len(SelectSeq(filtered, LAMBDA d : ~d.conversion_valid /\ d.converted)),
         source_conversion |-> RateTable(filtered, numerator, "input_channel"),
         conversion_rate_by_campaign |-> RateTable(filtered, numerator, "name"),
         funnel |-> <<Len(filtered),
                      Len(SelectSeq(numerator, LAMBDA d : d.converted))>>]

\* The script runs top to bottom for one state of the widgets
Render ==
    /\ collection # <<>>
    /\ LeadDays(collection) # {}
    /\ \E selected_campaigns \in SUBSET campaign_names(collection),
          start_date \in LeadDays(collection),
          end_date \in LeadDays(collection),
          include_invalid \in BOOLEAN :
            /\ Min(LeadDays(collection)) <= start_date
            /\ start_date <= end_date
            /\ end_date <= Max(LeadDays(collection))
            /\ dash' = Page(collection, selected_campaigns, start_date, end_date,
                            include_invalid)
    /\ UNCHANGED <<files, pc, merged_df, df_sanitized, collection, collection0,
                   failed_at, run>>

\* An empty collection gives a frame without columns: line 33 raises KeyError
RenderEmpty ==
    /\ collection = <<>>
    /\ dash' = [rendered |-> FALSE, crashed |-> TRUE]
    /\ UNCHANGED <<files, pc, merged_df, df_sanitized, collection, collection0,
                   failed_at, run>>

\* The collection as a completed run of the script leaves it.  The page reads
\* none of the float64 columns, so one pandas stands for both.
InitDashboard ==
    /\ where_upcasts = FALSE
    /\ campaigns \in CampaignFiles(CampaignNames)
    /\ leads \in LeadFiles({GoodCost})
    /\ inscriptions \in InscriptionFiles({Before1h, After12h})
    /\ pc = "done"
    /\ merged_df = prepare_dataset(campaigns, leads, inscriptions)
    /\ df_sanitized = sanitize_dataframe(merged_df, where_upcasts)
    /\ collection = AfterInsert(AfterDelete(<<>>, TRUE), Records(df_sanitized, 1))
    /\ collection0 = <<>>
    /\ failed_at = "none"
    /\ run = 1
    /\ dash = NoDash

NextDashboard ==
    \/ Render
    \/ RenderEmpty

SpecDashboard == InitDashboard /\ [][NextDashboard]_vars

---------------------------------------------------------------------------
(* Properties of prepare_dataset and sanitize_dataframe (SpecEnrich) *)

Returned == pc \in {"prepared", "sanitized"}

RowsOf(lead_id) == {j \in DOMAIN merged_df.rows : merged_df.rows[j].lead_id = lead_id}

\* C1: prepare_dataset returns exactly one row per lead: as many rows as
\* leads, and every lead_id in exactly one row, whatever the tables hold.
C1_OneRecordPerLead ==
    Returned =>
        /\ Len(merged_df.rows) = Len(leads)
        /\ \A i \in DOMAIN leads : Cardinality(RowsOf(leads[i].lead_id)) = 1

DuplicateKey(table, key) ==
    \E i, j \in DOMAIN table : i # j /\ table[i][key] = table[j][key]

\* C2: when two campaigns share a campaign_id or two inscriptions share a
\* lead_id, prepare_dataset fails and returns no rows.
C2_DuplicateKeyFails ==
    (DuplicateKey(campaigns, "campaign_id") \/ DuplicateKey(inscriptions, "lead_id"))
        => ~Returned

\* The row comes from an inscription of its lead whose created_at is missing
MatchedUndated(row) ==
    /\ isna(row.created_at_insc)
    /\ \E k \in DOMAIN inscriptions :
          /\ inscriptions[k].lead_id = row.lead_id
          /\ isna(inscriptions[k].created_at)

\* C3: a lead matched to an inscription without a date is labelled
\* MISSING_INSCRIPTION_DATE.
C3_MissingDateLabelled ==
    Returned =>
        \A j \in DOMAIN merged_df.rows :
            MatchedUndated(merged_df.rows[j])
                => merged_df.rows[j].conversion_anomaly_type = "MISSING_INSCRIPTION_DATE"

InscribedBeforeLead(row) ==
    /\ ~isna(row.inscription_created_at)
    /\ ~isna(row.lead_created_at)
    /\ row.inscription_created_at.v < row.lead_created_at.v

\* C4: when the inscription is earlier than the lead, by however little,
\* conversion_time_days is the floor of the difference in days, hence negative
\* (-1 when less than a day apart), conversion_valid is false and the anomaly
\* is NEGATIVE_CONVERSION_TIME.
C4_NegativeConversionTime ==
    Returned =>
        \A j \in DOMAIN merged_df.rows :
            LET row == merged_df.rows[j]
                diff == row.inscription_created_at.v - row.lead_created_at.v
                d == row.conversion_time_days
            IN  InscribedBeforeLead(row) =>
                    /\ ~isna(d)
                    /\ d.v * HoursPerDay <= diff
                    /\ diff < (d.v + 1) * HoursPerDay
                    /\ d.v < 0
                    /\ (diff > -HoursPerDay => d.v = -1)
                    /\ ~row.conversion_valid
                    /\ row.conversion_anomaly_type = "NEGATIVE_CONVERSION_TIME"

\* A lead inscribed one hour before it was created, counted as -1 day
C4_Witness ==
    /\ Returned
    /\ \E j \in DOMAIN merged_df.rows :
          /\ InscribedBeforeLead(merged_df.rows[j])
          /\ merged_df.rows[j].inscription_created_at.v
                 - merged_df.rows[j].lead_created_at.v = -1
          /\ merged_df.rows[j].conversion_time_days = IntCell(-1)

\* C8: conversion_valid is true exactly when converted is true and
\* conversion_time_days >= 0; a lead without inscription is not valid.
C8_ValidIffConvertedAndNonNegative ==
    Returned =>
        \A j \in DOMAIN merged_df.rows :
            LET row == merged_df.rows[j]
                d == row.conversion_time_days
            IN  /\ row.conversion_valid <=> (row.converted /\ ~isna(d) /\ d.v >= 0)
                /\ isna(d) => ~row.conversion_valid
                /\ row.conversion_valid => row.converted

\* One lead without inscription beside one validly converted
C8_Witness ==
    /\ Returned
    /\ \E j, k \in DOMAIN merged_df.rows :
          /\ isna(merged_df.rows[j].conversion_time_days)
          /\ ~merged_df.rows[j].converted
          /\ ~merged_df.rows[j].conversion_valid
          /\ merged_df.rows[k].conversion_valid

AnomalyTypes == {"NO_ANOMALY", "MISSING_INSCRIPTION_DATE", "NEGATIVE_CONVERSION_TIME"}

Unmatched(row) ==
    \A k \in DOMAIN inscriptions : inscriptions[k].lead_id # row.lead_id

\* C9: the anomaly is one of the three labels, a label other than NO_ANOMALY
\* implies converted (a non-null inscription_created_at), and a lead without
\* matching inscription gets NO_ANOMALY.
C9_AnomalyImpliesConverted ==
    Returned =>
        \A j \in DOMAIN merged_df.rows :
            LET row == merged_df.rows[j]
            IN  /\ row.conversion_anomaly_type \in AnomalyTypes
                /\ row.conversion_anomaly_type # "NO_ANOMALY" =>
                       row.converted /\ ~isna(row.inscription_created_at)
                /\ Unmatched(row) => row.conversion_anomaly_type = "NO_ANOMALY"

\* A flagged conversion beside a lead that matched no inscription
C9_Witness ==
    /\ Returned
    /\ \E j, k \in DOMAIN merged_df.rows :
          /\ merged_df.rows[j].conversion_anomaly_type = "NEGATIVE_CONVERSION_TIME"
          /\ Unmatched(merged_df.rows[k])
          /\ merged_df.rows[k].conversion_anomaly_type = "NO_ANOMALY"

\* C7: sanitize_dataframe is idempotent, turns every null-equivalent cell
\* (NaN, NaT) into None, leaves every other cell as it was, and does not
\* modify the frame it was given.
C7_SanitizeIdempotentTotal ==
    pc = "sanitized" =>
        /\ sanitize_dataframe(df_sanitized, where_upcasts) = df_sanitized
        /\ merged_df = prepare_dataset(campaigns, leads, inscriptions)
        /\ DOMAIN df_sanitized.rows = DOMAIN merged_df.rows
        /\ \A j \in DOMAIN merged_df.rows :
               \A c \in DOMAIN merged_df.rows[j] :
                   IF c \in NullableCols /\ isna(merged_df.rows[j][c])
                   THEN df_sanitized.rows[j][c] = None
                   ELSE df_sanitized.rows[j][c] = merged_df.rows[j][c]

---------------------------------------------------------------------------
(* Properties of a run of the script (Spec) *)

\* A malformed currency or date string is in a row that reaches lines 128-133
MalformedReachesParsing ==
    LET m == Merged(campaigns, leads, inscriptions)
    IN  \E j \in DOMAIN m :
            \/ m[j].cost = BadCost
            \/ m[j].amount = BadCost
            \/ m[j].created_at = BadDate
            \/ m[j].created_at_insc = BadDate

\* C5: an error raised while loading, enriching (a malformed currency or date
\* string included) or sanitizing ends the run before the upload starts: the
\* collection is neither cleared nor written and keeps what it held.
C5_ErrorAbortsBeforePersist ==
    /\ (pc = "aborted" /\ failed_at \in {"load", "prepare", "sanitize"})
           => collection = collection0
    /\ MalformedReachesParsing =>
           /\ pc \in {"start", "loaded", "aborted"}
           /\ failed_at \in {"none", "load", "prepare"}
           /\ collection = collection0

\* A run over a malformed cost aborted in prepare_dataset, the collection
\* still holding its documents
C5_Witness ==
    /\ pc = "aborted"
    /\ failed_at = "prepare"
    /\ \E i \in DOMAIN leads : leads[i].cost = BadCost
    /\ collection # <<>>
    /\ collection = collection0

\* C6: once the upload of a run has completed, the collection holds exactly
\* the sanitized records of that run, one document each, and no document of
\* an earlier run; with zero records it is empty.
C6_UploadReplacesCollection ==
    pc = "done" =>
        /\ collection = Records(df_sanitized, run)
        /\ Len(collection) = Len(df_sanitized.rows)
        /\ \A i \in DOMAIN collection :
               /\ collection[i]._id[1] = run
               /\ \A k \in DOMAIN collection0 : collection[i]._id # collection0[k]._id
        /\ df_sanitized.rows = <<>> => collection = <<>>

\* A second run replaced the documents the first run had uploaded
C6_Witness ==
    /\ pc = "done"
    /\ run = 2
    /\ \E k \in DOMAIN collection0 : collection0[k]._id[1] = 1
    /\ collection # <<>>

---------------------------------------------------------------------------
(* Properties of the dashboard (SpecDashboard) *)

\* The documents of the leads that matched a campaign
Named(docs) == SelectSeq(docs, LAMBDA d : ~isna(d.name))

\* C10: a lead without campaign name is in the filtered table for no
\* selection, the default one included, so every aggregate is what it would
\* be without these leads, and the total can be below the number of documents.
C10_UnmatchedLeadsExcluded ==
    dash.rendered =>
        /\ \A i \in DOMAIN collection :
               isna(collection[i].name) =>
                   \A k \in DOMAIN dash.shown : dash.shown[k] # collection[i]._id
        /\ dash = Page(Named(collection), dash.selected_campaigns, dash.start_date,
                       dash.end_date, dash.include_invalid)
        /\ dash.total_leads <= Len(Named(collection))

\* Every campaign selected over the whole range of dates, and fewer leads
\* shown than documents stored
C10_Witness ==
    /\ dash.rendered
    /\ dash.selected_campaigns = campaign_names(collection)
    /\ dash.start_date = Min(LeadDays(collection))
    /\ dash.end_date = Max(LeadDays(collection))
    /\ dash.total_leads > 0
    /\ dash.total_leads < Len(collection)
    /\ \E i \in DOMAIN collection : isna(collection[i].name)

===========================================================================
